---- MODULE Spec2Model ----
(***************************************************************************)
(* jif: a terminal GIF viewer.  The model covers the playback controller   *)
(* (the bubbletea model of core/viewer.go: Init, Update and its handlers), *)
(* the processing worker started by ProcessGIF (canvas compositing with    *)
(* GIF disposal, rasterization sizing and progress reporting) and the      *)
(* messages the two exchange.                                              *)
(*                                                                         *)
(* Strings produced by the rasterizer are represented by the values that   *)
(* determine them: a frame string is <<imgCopy, width, height>> (the       *)
(* composited canvas and the terminal dimensions read while rendering it), *)
(* a partial frame is <<imgCopy, width, height, rows>>, and the empty      *)
(* string is <<>>.                                                         *)
(***************************************************************************)
EXTENDS Integers, Sequences, FiniteSets, TLC

VARIABLES
    GIF,            \* model.GIF: [Image, Delay, Disposal], fixed after construction
    Frames,         \* model.Frames
    CurrentFrame,   \* model.CurrentFrame
    Width,          \* model.Width
    Height,         \* model.Height
    Paused,         \* model.Paused
    ShowHelp,       \* model.ShowHelp
    Ready,          \* model.Ready
    Loading,        \* model.Loading
    LoadingFrame,   \* model.LoadingFrame
    LoadingRows,    \* model.LoadingRows
    TotalRows,      \* model.TotalRows
    workers,        \* one record per ProcessGIF command started, in start order
    progressChan,   \* per run: progress messages sent on progressChan, not yet delivered by p.Send
    timers,         \* number of tea.Tick wake-ups scheduled and not yet delivered
    quit,           \* tea.Quit was returned: the event loop has ended
    deferred,       \* history: a changed-size resize took the "currently loading" return since the run started
    last,           \* history: the step just taken and the command the handler returned
    call            \* a rasterizer function applied on its own: [fn, in, done, out]

ctrl == <<Frames, CurrentFrame, Width, Height, Paused, ShowHelp, Ready, Loading,
          LoadingFrame, LoadingRows, TotalRows>>

vars == <<GIF, Frames, CurrentFrame, Width, Height, Paused, ShowHelp, Ready, Loading,
          LoadingFrame, LoadingRows, TotalRows, workers, progressChan, timers, quit,
          deferred, last, call>>

(***************************************************************************)
(* Bounds of the model.                                                    *)
(***************************************************************************)
MaxFrames == 2

MaxImages == 3

MaxRuns == 2

MaxTimers == 2

(***************************************************************************)
(* image/gif disposal codes.                                               *)
(***************************************************************************)
DisposalNone == 1

DisposalBackground == 2

DisposalPrevious == 3

Disposals == {DisposalNone, DisposalBackground, DisposalPrevious}

(***************************************************************************)
(* Rectangles, images and canvases.  A rectangle is [Min, Max] with Max    *)
(* exclusive, as image.Rectangle.  Colour 0 is the transparent palette     *)
(* entry; every other colour is opaque.                                    *)
(***************************************************************************)
Transparent == 0

Rect(x0, y0, x1, y1) == [Min |-> [X |-> x0, Y |-> y0], Max |-> [X |-> x1, Y |-> y1]]

Dx(r) == r.Max.X - r.Min.X

Dy(r) == r.Max.Y - r.Min.Y

Points(r) == {<<x, y>> : x \in r.Min.X .. (r.Max.X - 1), y \in r.Min.Y .. (r.Max.Y - 1)}

RECURSIVE FoldLowest(_, _, _)
FoldLowest(vals, k, acc) ==
    IF k > Len(vals) THEN acc
    ELSE FoldLowest(vals, k + 1, IF vals[k] < acc THEN vals[k] ELSE acc)

RECURSIVE FoldHighest(_, _, _)
FoldHighest(vals, k, acc) ==
    IF k > Len(vals) THEN acc
    ELSE FoldHighest(vals, k + 1, IF vals[k] > acc THEN vals[k] ELSE acc)

\* A faulty getGifDimensions: the accumulators start at the first frame's bounds.
getGifDimensions_FromFirst(g) ==
    LET n == Len(g.Image)
        first == g.Image[1].Rect
        lowestX  == FoldLowest([k \in 1..n |-> g.Image[k].Rect.Min.X], 1, first.Min.X)
        lowestY  == FoldLowest([k \in 1..n |-> g.Image[k].Rect.Min.Y], 1, first.Min.Y)
        highestX == FoldHighest([k \in 1..n |-> g.Image[k].Rect.Max.X], 1, first.Max.X)
        highestY == FoldHighest([k \in 1..n |-> g.Image[k].Rect.Max.Y], 1, first.Max.Y)
    IN  <<highestX - lowestX, highestY - lowestY>>

\* getGifDimensions: the four accumulators start at zero.
getGifDimensions(g) ==
    LET n == Len(g.Image)
        lowestX  == FoldLowest([k \in 1..n |-> g.Image[k].Rect.Min.X], 1, 0)
        lowestY  == FoldLowest([k \in 1..n |-> g.Image[k].Rect.Min.Y], 1, 0)
        highestX == FoldHighest([k \in 1..n |-> g.Image[k].Rect.Max.X], 1, 0)
        highestY == FoldHighest([k \in 1..n |-> g.Image[k].Rect.Max.Y], 1, 0)
    IN  <<highestX - lowestX, highestY - lowestY>>

\* image.NewRGBA(image.Rect(0, 0, imgWidth, imgHeight)): a fully transparent canvas.
CanvasRect(g) == Rect(0, 0, getGifDimensions(g)[1], getGifDimensions(g)[2])

NewRGBA(r) == [p \in Points(r) |-> Transparent]

\* draw.Draw(dst, r, &image.Uniform{color.Transparent}, image.Point{}, draw.Src):
\* r is clipped to dst's bounds.
DrawUniformSrc(dst, r) ==
    [p \in DOMAIN dst |-> IF p \in Points(r) THEN Transparent ELSE dst[p]]

\* draw.Draw(dst, dst.Bounds(), src, image.Point{}, draw.Src), dst and src of equal bounds.
DrawCopySrc(dst, src) == [p \in DOMAIN dst |-> src[p]]

\* A faulty DrawOver: the frame is copied with draw.Src, transparent pixels included.
DrawOver_Src(dst, srcImg) ==
    [p \in DOMAIN dst |-> IF p \in Points(srcImg.Rect) THEN srcImg.Pix[p] ELSE dst[p]]

\* draw.Draw(dst, dst.Bounds(), srcImg, image.Point{}, draw.Over): the rectangle is
\* clipped to srcImg's bounds; a transparent source pixel leaves dst as it is.
DrawOver(dst, srcImg) ==
    [p \in DOMAIN dst |->
        IF p \in Points(srcImg.Rect) /\ srcImg.Pix[p] # Transparent
        THEN srcImg.Pix[p] ELSE dst[p]]

\* A faulty processFrame: DisposalBackground clears the whole canvas.
processFrame_ClearAll(currentImg, previousImg, srcRect, disposal) ==
    CASE disposal = DisposalBackground -> [p \in DOMAIN currentImg |-> Transparent]
      [] disposal = DisposalPrevious   -> DrawCopySrc(currentImg, previousImg)
      [] OTHER                         -> currentImg

\* processFrame: apply the disposal method of the previous frame to currentImg.
processFrame(currentImg, previousImg, srcRect, disposal) ==
    CASE disposal = DisposalBackground -> DrawUniformSrc(currentImg, srcRect)
      [] disposal = DisposalPrevious   -> DrawCopySrc(currentImg, previousImg)
      [] OTHER                         -> currentImg

(***************************************************************************)
(* Rasterizer sizing and progress reporting.                               *)
(***************************************************************************)
\* A faulty calculateImageSize: the whole terminal width is taken as the pixel width.
calculateImageSize_FullWidth(w, h, r) ==
    LET targetHeight == (w * Dy(r) * 2) \div Dx(r)
    IN  IF targetHeight > h * 2
        THEN <<((h * 2) * Dx(r)) \div (Dy(r) * 2), h * 2>>
        ELSE <<w, targetHeight>>

\* A faulty calculateImageSize: the height is not fitted to the terminal.
calculateImageSize_NoFit(w, h, r) == <<w \div 2, ((w \div 2) * Dy(r) * 2) \div Dx(r)>>

\* calculateImageSize, for terminal dimensions (w, h) and an image of bounds r.
\* ratio is float64(Dy)/float64(Dx) and int(...) truncates; for the sizes of the
\* model the float64 results equal the exact quotients taken here.
calculateImageSize(w, h, r) ==
    LET maxWidth == w \div 2
        targetHeight == (maxWidth * Dy(r) * 2) \div Dx(r)
    IN  IF targetHeight > h * 2
        THEN <<((h * 2) * Dx(r)) \div (Dy(r) * 2), h * 2>>
        ELSE <<maxWidth, targetHeight>>

\* color.RGBA.RGBA(): the 8-bit channels widened to 16 bits (c | c << 8).
RGBA(c) == [R |-> c.R * 257, G |-> c.G * 257, B |-> c.B * 257, A |-> c.A * 257]

\* A faulty Hex: the channels are rounded to the nearest byte.
Hex_Rounded(r, g, b) ==
    <<((r + 128) \div 256) % 256, ((g + 128) \div 256) % 256, ((b + 128) \div 256) % 256>>

\* fmt.Sprintf("#%02x%02x%02x", uint8(r>>8), uint8(g>>8), uint8(b>>8)), as its three bytes.
Hex(r, g, b) == <<(r \div 256) % 256, (g \div 256) % 256, (b \div 256) % 256>>

\* The three texts renderHalfBlockChar renders.
Blank == "  "

LowerHalfBlocks == "lower half block, twice"

UpperHalfBlocks == "upper half block, twice"

\* No colour set in a lipgloss style.
NoColor == <<>>

\* A faulty renderHalfBlockChar: the top-only case takes the bottom pixel's colour.
renderHalfBlockChar_WrongPixel(topColor, bottomColor) ==
    LET top == RGBA(topColor)
        bottom == RGBA(bottomColor)
    IN  IF top.A = 0 /\ bottom.A = 0
        THEN [text |-> Blank, fg |-> NoColor, bg |-> NoColor]
        ELSE IF top.A = 0
        THEN [text |-> LowerHalfBlocks, fg |-> Hex(bottom.R, bottom.G, bottom.B), bg |-> NoColor]
        ELSE IF bottom.A = 0
        THEN [text |-> UpperHalfBlocks, fg |-> Hex(bottom.R, bottom.G, bottom.B), bg |-> NoColor]
        ELSE [text |-> UpperHalfBlocks, fg |-> Hex(top.R, top.G, top.B),
              bg |-> Hex(bottom.R, bottom.G, bottom.B)]

\* renderHalfBlockChar: the text rendered for two stacked pixels and the foreground
\* and background colours of its style.
renderHalfBlockChar(topColor, bottomColor) ==
    LET top == RGBA(topColor)
        bottom == RGBA(bottomColor)
    IN  IF top.A = 0 /\ bottom.A = 0
        THEN [text |-> Blank, fg |-> NoColor, bg |-> NoColor]
        ELSE IF top.A = 0
        THEN [text |-> LowerHalfBlocks, fg |-> Hex(bottom.R, bottom.G, bottom.B), bg |-> NoColor]
        ELSE IF bottom.A = 0
        THEN [text |-> UpperHalfBlocks, fg |-> Hex(top.R, top.G, top.B), bg |-> NoColor]
        ELSE [text |-> UpperHalfBlocks, fg |-> Hex(top.R, top.G, top.B),
              bg |-> Hex(bottom.R, bottom.G, bottom.B)]

\* Height of resize.Resize(width, height, img, resize.Lanczos3): a zero dimension is
\* derived from the other by the aspect ratio, and (0, 0) returns the image as it is.
resizedHeight(size, r) ==
    IF size[2] # 0 THEN size[2]
    ELSE IF size[1] = 0 THEN Dy(r)
    ELSE (7 * Dx(r) + 10 * Dy(r) * size[1]) \div (10 * Dx(r))

\* A faulty progressMsgs: a message is sent after every second row only.
progressMsgs_EvenOnly(imgCopy, w, h, r) ==
    LET rh == resizedHeight(calculateImageSize(w, h, r), r)
        totalRows == (rh + 1) \div 2
        msg(row) == [partialFrame |-> <<imgCopy, w, h, row>>,
                     rowsComplete |-> row, totalRows |-> totalRows]
        Sent(m) == m.rowsComplete % 2 = 0
    IN  SelectSeq([row \in 1..totalRows |-> msg(row)], Sent)

\* renderImageHalfBlock's progress messages for an image rendered at terminal
\* dimensions (w, h): totalRows := (Dy + 1) / 2, one message after every second
\* row and after the last row.
progressMsgs(imgCopy, w, h, r) ==
    LET rh == resizedHeight(calculateImageSize(w, h, r), r)
        totalRows == (rh + 1) \div 2
        rowCount == (rh + 1) \div 2
        msg(row) == [partialFrame |-> <<imgCopy, w, h, row>>,
                     rowsComplete |-> row, totalRows |-> totalRows]
        Sent(m) == m.rowsComplete % 2 = 0 \/ 2 * (m.rowsComplete - 1) + 2 >= rh
    IN  SelectSeq([row \in 1..rowCount |-> msg(row)], Sent)

\* renderImageHalfBlock's result: the text of imgCopy rendered for (w, h).
renderImageHalfBlock(imgCopy, w, h) == <<imgCopy, w, h>>

\* color.Transparent.
ColorTransparent == [R |-> 0, G |-> 0, B |-> 0, A |-> 0]

\* sb.WriteString("\n"), as an element of the text written.
Newline == [text |-> "\n", fg |-> NoColor, bg |-> NoColor]

\* A faulty bottomColor: below the last row of pixels it repeats the top pixel.
bottomColor_Clamped(resized, x, y) ==
    IF y + 1 < resized.Rect.Max.Y THEN resized.Pix[<<x, y + 1>>] ELSE resized.Pix[<<x, y>>]

\* The bottom pixel of the glyph at (x, y): resized.At(x, y+1) if y+1 < bounds.Max.Y,
\* color.Transparent otherwise.
bottomColor(resized, x, y) ==
    IF y + 1 < resized.Rect.Max.Y THEN resized.Pix[<<x, y + 1>>] ELSE ColorTransparent

\* The loop of renderImageHalfBlock over the resampled image, from row y on: for
\* every second y one glyph per x and then a newline, appended to sb.
RECURSIVE halfBlockRows(_, _, _)
halfBlockRows(resized, y, sb) ==
    IF y >= resized.Rect.Max.Y THEN sb
    ELSE halfBlockRows(resized, y + 2,
            sb \o [k \in 1..Dx(resized.Rect) |->
                      renderHalfBlockChar(resized.Pix[<<resized.Rect.Min.X + k - 1, y>>],
                                          bottomColor(resized, resized.Rect.Min.X + k - 1, y))]
               \o <<Newline>>)

\* sb.String() at the end of renderImageHalfBlock, for the resampled image.
halfBlockText(resized) == halfBlockRows(resized, resized.Rect.Min.Y, <<>>)

(***************************************************************************)
(* The processing worker: the closure returned by ProcessGIF.              *)
(***************************************************************************)
NumFrames == Len(GIF.Image)

\* make([]string, len(m.GIF.Image))
MakeFrames == [k \in 1..NumFrames |-> <<>>]

\* ProcessGIF: the state of the command when it starts to run; closes counts the
\* close(progressChan) calls made.
ProcessGIF ==
    [pc |-> "composite", i |-> 0, frames |-> MakeFrames,
     currentImage |-> NewRGBA(CanvasRect(GIF)),
     previousImage |-> NewRGBA(CanvasRect(GIF)),
     imgCopy |-> NewRGBA(CanvasRect(GIF)),
     width |-> 0, bases |-> <<>>, closes |-> 0]

\* "Save previous state if needed": the snapshot is taken when the PREVIOUS frame's
\* disposal is DisposalPrevious, from the canvas as it is then.
SavePrevious(w) ==
    IF w.i > 0 /\ GIF.Disposal[w.i] = DisposalPrevious
    THEN DrawCopySrc(w.previousImage, w.currentImage)
    ELSE w.previousImage

\* "Apply disposal method from previous frame".
ApplyDisposal(w, previousImage) ==
    IF w.i > 0
    THEN processFrame(w.currentImage, previousImage, GIF.Image[w.i].Rect, GIF.Disposal[w.i])
    ELSE w.currentImage

\* One loop iteration up to the image copy; rendering then starts and
\* calculateImageSize reads m.Width.
WorkerComposite(r) ==
    /\ ~quit
    /\ r \in 1..Len(workers)
    /\ workers[r].pc = "composite"
    /\ LET w == workers[r]
           previousImage == SavePrevious(w)
           base == ApplyDisposal(w, previousImage)
           currentImage == DrawOver(base, GIF.Image[w.i + 1])
       IN  workers' = [workers EXCEPT ![r] =
                [w EXCEPT !.pc = "render",
                          !.previousImage = previousImage,
                          !.currentImage = currentImage,
                          !.imgCopy = DrawCopySrc(NewRGBA(CanvasRect(GIF)), currentImage),
                          !.bases = Append(w.bases, base),
                          !.width = Width]]
    /\ last' = [ev |-> "worker", cmd |-> "none", delay |-> 0]
    /\ UNCHANGED <<GIF, call, ctrl, progressChan, timers, quit, deferred>>

\* A faulty LoopDone: the loop stops one image early.
LoopDone_Early(w) == w.i + 2 >= NumFrames

\* The loop has run over every image.
LoopDone(w) == w.i + 1 = NumFrames

\* A faulty ReportsProgress: every frame is rendered with the progress channel.
ReportsProgress_EveryFrame(i) == TRUE

\* "Render with progressive updates only for first frame": if i == 0
ReportsProgress(i) == i = 0

\* calculateImageSize reads m.Height, the frame is rendered (with progress messages
\* for the first frame only, after which progressChan is closed) and stored in the
\* local slice.
WorkerRender(r) ==
    /\ ~quit
    /\ r \in 1..Len(workers)
    /\ workers[r].pc = "render"
    /\ LET w == workers[r]
       IN  /\ workers' = [workers EXCEPT ![r] =
                [w EXCEPT !.pc = IF LoopDone(w) THEN "store" ELSE "composite",
                          !.i = w.i + 1,
                          !.closes = w.closes + (IF ReportsProgress(w.i) THEN 1 ELSE 0),
                          !.frames = [w.frames EXCEPT ![w.i + 1] =
                                        renderImageHalfBlock(w.imgCopy, w.width, Height)]]]
           /\ progressChan' = IF ReportsProgress(w.i)
                THEN [progressChan EXCEPT ![r] =
                        progressChan[r] \o
                        progressMsgs(w.imgCopy, w.width, Height, CanvasRect(GIF))]
                ELSE progressChan
    /\ last' = [ev |-> "worker", cmd |-> "none", delay |-> 0]
    /\ UNCHANGED <<GIF, call, ctrl, timers, quit, deferred>>

\* m.Frames = frames; return processingCompleteMsg{}: the message is then in flight
\* and the closure's locals are gone.
WorkerStore(r) ==
    /\ ~quit
    /\ r \in 1..Len(workers)
    /\ workers[r].pc = "store"
    /\ Frames' = workers[r].frames
    /\ workers' = [workers EXCEPT ![r] = [ProcessGIF EXCEPT !.pc = "sent", !.closes = workers[r].closes]]
    /\ last' = [ev |-> "worker", cmd |-> "none", delay |-> 0]
    /\ UNCHANGED <<GIF, call, CurrentFrame, Width, Height, Paused, ShowHelp, Ready, Loading,
                   LoadingFrame, LoadingRows, TotalRows, progressChan, timers, quit,
                   deferred>>

(***************************************************************************)
(* The event loop: Init and the handlers Update dispatches to.  Each       *)
(* handler runs on the event loop, one message at a time.                  *)
(***************************************************************************)
NoCmd == [cmd |-> "none", delay |-> 0]

\* A faulty nextFrame: a delay of 0 is not replaced.
nextFrame_NoMinimum(currentFrame) ==
    IF currentFrame < 0 \/ currentFrame >= Len(GIF.Delay)
    THEN [cmd |-> "none", delay |-> 0]
    ELSE [cmd |-> "tick", delay |-> GIF.Delay[currentFrame + 1] * 10]

\* A faulty nextFrame: no wake-up is ever scheduled.
nextFrame_Nil(currentFrame) == [cmd |-> "none", delay |-> 0]

\* nextFrame: a one-shot tea.Tick of delay*10 ms, the delay of the current frame,
\* a delay of 0 taken as 10; nil when the index is outside GIF.Delay.
nextFrame(currentFrame) ==
    IF currentFrame < 0 \/ currentFrame >= Len(GIF.Delay)
    THEN NoCmd
    ELSE LET delay == GIF.Delay[currentFrame + 1]
         IN  [cmd |-> "tick", delay |-> (IF delay = 0 THEN 10 ELSE delay) * 10]

Scheduled(c) == IF c.cmd = "tick" THEN 1 ELSE 0

Started == Len(workers) > 0

\* tea.Program.Run calls Init before it delivers any message.
Start ==
    /\ ~Started
    /\ ~quit
    /\ Loading' = TRUE
    /\ workers' = <<ProcessGIF>>
    /\ progressChan' = <<<<>>>>
    /\ last' = [ev |-> "init", cmd |-> "process", delay |-> 0]
    /\ UNCHANGED <<GIF, call, Frames, CurrentFrame, Width, Height, Paused, ShowHelp, Ready,
                   LoadingFrame, LoadingRows, TotalRows, timers, quit, deferred>>

\* The keys handleKeyPress has a case for ("right", "left" and "ctrl+c" share the
\* cases of "n", "p" and "q"); every other key returns the model unchanged.
Keys == {"space", "?", "n", "p", "q"}

\* A faulty SpaceCmd: unpausing never schedules an advance.
SpaceCmd_Never(paused) == NoCmd

\* A faulty SpaceCmd: unpausing schedules an advance before the controller is Ready.
SpaceCmd_IgnoresReady(paused) == IF ~paused THEN nextFrame(CurrentFrame) ELSE NoCmd

\* The command case "space" returns, paused being the new value of m.Paused.
SpaceCmd(paused) == IF ~paused /\ Ready THEN nextFrame(CurrentFrame) ELSE NoCmd

\* case "space"
KeySpace ==
    LET paused == ~Paused
        c == SpaceCmd(paused)
    IN  /\ timers + Scheduled(c) <= MaxTimers
        /\ Paused' = paused
        /\ timers' = timers + Scheduled(c)
        /\ last' = [ev |-> "space", cmd |-> c.cmd, delay |-> c.delay]
        /\ UNCHANGED <<Frames, CurrentFrame, ShowHelp, quit>>

\* case "?"
KeyHelp ==
    /\ ShowHelp' = ~ShowHelp
    /\ last' = [ev |-> "?", cmd |-> "none", delay |-> 0]
    /\ UNCHANGED <<Frames, CurrentFrame, Paused, timers, quit>>

\* A faulty StepIndex: the index is moved without wrapping.
StepIndex_NoWrap(currentFrame, step, n) == currentFrame + step

\* (m.CurrentFrame + 1) % len(m.Frames) and (m.CurrentFrame - 1 + len(m.Frames)) % len(m.Frames)
StepIndex(currentFrame, step, n) ==
    IF step = 1 THEN (currentFrame + 1) % n ELSE (currentFrame - 1 + n) % n

\* A faulty HasFrames: the step keys act only once the controller is Ready.
HasFrames_WhenReady == Ready /\ Len(Frames) > 0

\* if len(m.Frames) > 0
HasFrames == Len(Frames) > 0

\* case "n", "right" (step = 1) and case "p", "left" (step = -1)
KeyStep(key, step) ==
    /\ IF HasFrames
       THEN /\ Paused' = TRUE
            /\ CurrentFrame' = StepIndex(CurrentFrame, step, Len(Frames))
       ELSE UNCHANGED <<Paused, CurrentFrame>>
    /\ last' = [ev |-> key, cmd |-> "none", delay |-> 0]
    /\ UNCHANGED <<Frames, ShowHelp, timers, quit>>

\* case "q", "ctrl+c"
KeyQuit ==
    /\ quit' = TRUE
    /\ last' = [ev |-> "q", cmd |-> "quit", delay |-> 0]
    /\ UNCHANGED <<Frames, CurrentFrame, Paused, ShowHelp, timers>>

handleKeyPress(key) ==
    /\ Started
    /\ ~quit
    /\ CASE key = "space" -> KeySpace
         [] key = "?"     -> KeyHelp
         [] key = "n"     -> KeyStep("n", 1)
         [] key = "p"     -> KeyStep("p", -1)
         [] key = "q"     -> KeyQuit
    /\ UNCHANGED <<GIF, call, Width, Height, Ready, Loading, LoadingFrame, LoadingRows,
                   TotalRows, workers, progressChan, deferred>>

\* A faulty CanAdvance: a paused controller still advances.
CanAdvance_IgnoresPause == Ready /\ Len(Frames) > 0

\* The guard of handleFrameAdvance.
CanAdvance == ~Paused /\ Ready /\ Len(Frames) > 0

\* A tea.Tick wake-up fires and its frameMsg is handled.
handleFrameAdvance ==
    /\ Started
    /\ ~quit
    /\ timers > 0
    /\ IF CanAdvance
       THEN LET next == (CurrentFrame + 1) % Len(Frames)
                c == nextFrame(next)
            IN  /\ CurrentFrame' = next
                /\ timers' = timers - 1 + Scheduled(c)
                /\ last' = [ev |-> "tick", cmd |-> c.cmd, delay |-> c.delay]
       ELSE /\ timers' = timers - 1
            /\ last' = [ev |-> "tick", cmd |-> "none", delay |-> 0]
            /\ UNCHANGED CurrentFrame
    /\ UNCHANGED <<GIF, call, Frames, Width, Height, Paused, ShowHelp, Ready, Loading,
                   LoadingFrame, LoadingRows, TotalRows, workers, progressChan, quit,
                   deferred>>

\* A faulty AcceptsProgress: progress is accepted in every state.
AcceptsProgress_Always == TRUE

\* The guard of handleProgress.
AcceptsProgress == Loading /\ ~Ready

\* p.Send delivers the oldest undelivered progress message of run r.
handleProgress(r) ==
    /\ ~quit
    /\ r \in 1..Len(progressChan)
    /\ progressChan[r] # <<>>
    /\ LET msg == Head(progressChan[r])
       IN  IF AcceptsProgress
           THEN /\ LoadingFrame' = msg.partialFrame
                /\ LoadingRows' = msg.rowsComplete
                /\ TotalRows' = msg.totalRows
           ELSE UNCHANGED <<LoadingFrame, LoadingRows, TotalRows>>
    /\ progressChan' = [progressChan EXCEPT ![r] = Tail(progressChan[r])]
    /\ last' = [ev |-> "progress", cmd |-> "none", delay |-> 0]
    /\ UNCHANGED <<GIF, call, Frames, CurrentFrame, Width, Height, Paused, ShowHelp, Ready,
                   Loading, workers, timers, quit, deferred>>

\* A faulty CompleteCmd: playback is started even when paused.
CompleteCmd_IgnoresPause == nextFrame(0)

\* The command handleProcessingComplete returns, CurrentFrame being 0 by then.
CompleteCmd == IF ~Paused THEN nextFrame(0) ELSE NoCmd

\* The processingCompleteMsg of run r is handled.
handleProcessingComplete(r) ==
    /\ ~quit
    /\ r \in 1..Len(workers)
    /\ workers[r].pc = "sent"
    /\ LET c == CompleteCmd
       IN  /\ timers + Scheduled(c) <= MaxTimers
           /\ Ready' = TRUE
           /\ Loading' = FALSE
           /\ CurrentFrame' = 0
           /\ timers' = timers + Scheduled(c)
           /\ last' = [ev |-> "complete", cmd |-> c.cmd, delay |-> c.delay]
    /\ workers' = [workers EXCEPT ![r].pc = "done"]
    /\ deferred' = FALSE
    /\ UNCHANGED <<GIF, call, Frames, Width, Height, Paused, ShowHelp, LoadingFrame,
                   LoadingRows, TotalRows, progressChan, quit>>

\* A faulty InitialSize: the first size report is handled as a resize.
InitialSize_Never(oldWidth, oldHeight) == FALSE

\* "Ignore initial size (handled by Init)"
InitialSize(oldWidth, oldHeight) == oldWidth = 0 \/ oldHeight = 0

\* "Ignore if size didn't actually change"
SameSize(oldWidth, oldHeight, width, height) == oldWidth = width /\ oldHeight = height

\* A faulty ResizeWhileLoading: a Ready controller counts as busy too.
ResizeWhileLoading_OrReady == Loading \/ Ready

\* A faulty ResizeWhileLoading: a resize while loading is processed at once.
ResizeWhileLoading_Never == FALSE

\* "Ignore if we're currently loading - just update dimensions"
ResizeWhileLoading == Loading

\* A tea.WindowSizeMsg{width, height} is handled.
handleWindowResize(width, height) ==
    /\ Started
    /\ ~quit
    /\ Width' = width
    /\ Height' = height
    /\ IF InitialSize(Width, Height) \/ SameSize(Width, Height, width, height)
       THEN /\ last' = [ev |-> "resize", cmd |-> "none", delay |-> 0]
            /\ UNCHANGED <<Ready, Loading, LoadingFrame, LoadingRows, TotalRows, Frames,
                           workers, progressChan, deferred>>
       ELSE IF ResizeWhileLoading
       THEN /\ last' = [ev |-> "resize", cmd |-> "none", delay |-> 0]
            /\ deferred' = TRUE
            /\ UNCHANGED <<Ready, Loading, LoadingFrame, LoadingRows, TotalRows, Frames,
                           workers, progressChan>>
       ELSE /\ Len(workers) < MaxRuns
            /\ Ready' = FALSE
            /\ Loading' = TRUE
            /\ LoadingFrame' = <<>>
            /\ LoadingRows' = 0
            /\ TotalRows' = 0
            /\ Frames' = <<>>
            /\ workers' = Append(workers, ProcessGIF)
            /\ progressChan' = Append(progressChan, <<>>)
            /\ deferred' = FALSE
            /\ last' = [ev |-> "resize", cmd |-> "process", delay |-> 0]
    /\ UNCHANGED <<GIF, call, CurrentFrame, Paused, ShowHelp, timers, quit>>

\* View: which of the three views is rendered.
View ==
    IF Loading /\ LoadingFrame # <<>> THEN "loading"
    ELSE IF ~Ready \/ Len(Frames) = 0 THEN "initial"
    ELSE "playback"

(***************************************************************************)
(* Inputs.                                                                 *)
(***************************************************************************)
\* Terminal sizes reported by tea.WindowSizeMsg.
Sizes == {<<6, 2>>, <<6, 3>>}

\* GIF delays in 1/100 s: the first frame has no delay specified.
DelayOf(k) == IF k = 1 THEN 0 ELSE 30

\* A 2x2 image, every pixel of colour c.
Solid(c) == [Rect |-> Rect(0, 0, 2, 2), Pix |-> [p \in Points(Rect(0, 0, 2, 2)) |-> c]]

\* The GIFs played by the controller: 1..MaxFrames full-canvas frames.
ViewerGIFs ==
    {[Image |-> [k \in 1..n |-> Solid(k)], Delay |-> [k \in 1..n |-> DelayOf(k)],
      Disposal |-> [k \in 1..n |-> DisposalNone]] : n \in 1..MaxFrames}

\* The state after Run has built the model: model{GIF: gifImage, Paused: false}.
Construct ==
    /\ Frames = <<>>
    /\ CurrentFrame = 0
    /\ Width = 0
    /\ Height = 0
    /\ Paused = FALSE
    /\ ShowHelp = FALSE
    /\ Ready = FALSE
    /\ Loading = FALSE
    /\ LoadingFrame = <<>>
    /\ LoadingRows = 0
    /\ TotalRows = 0
    /\ workers = <<>>
    /\ progressChan = <<>>
    /\ timers = 0
    /\ quit = FALSE
    /\ deferred = FALSE
    /\ last = [ev |-> "new", cmd |-> "none", delay |-> 0]

\* No rasterizer function is applied on its own.
NoCall == [fn |-> "none", in |-> <<>>, done |-> FALSE, out |-> <<>>]

Init ==
    /\ GIF \in ViewerGIFs
    /\ Construct
    /\ call = NoCall

Worker ==
    \E r \in 1..MaxRuns : WorkerComposite(r) \/ WorkerRender(r) \/ WorkerStore(r)

Update ==
    \/ \E key \in Keys : handleKeyPress(key)
    \/ handleFrameAdvance
    \/ \E r \in 1..MaxRuns : handleProgress(r)
    \/ \E r \in 1..MaxRuns : handleProcessingComplete(r)
    \/ \E size \in Sizes : handleWindowResize(size[1], size[2])

Next ==
    \/ Start
    \/ Worker
    \/ Update

Spec == Init /\ [][Next]_vars

(***************************************************************************)
(* The compositor on its own: one processing run, from Init to the         *)
(* completion message, over every GIF of MaxImages small frames.           *)
(***************************************************************************)
FrameRects == {Rect(0, 0, 2, 1), Rect(1, 0, 2, 1)}

\* Frame k: a rectangle, pixels that are transparent or of the frame's own colour,
\* and a disposal code.
SubFrames(k) ==
    UNION {{[Rect |-> r, Pix |-> pix] : pix \in [Points(r) -> {Transparent, k}]}
           : r \in FrameRects}

DisposalGIFs ==
    {[Image |-> img, Delay |-> [k \in 1..MaxImages |-> 10], Disposal |-> d] :
        img \in {f \in [1..MaxImages -> UNION {SubFrames(k) : k \in 1..MaxImages}] :
                    \A k \in 1..MaxImages : f[k] \in SubFrames(k)},
        d \in [1..MaxImages -> Disposals]}

InitGIF ==
    /\ GIF \in DisposalGIFs
    /\ Construct
    /\ call = NoCall

NextGIF ==
    \/ Start
    \/ Worker
    \/ \E r \in 1..MaxRuns : handleProcessingComplete(r)

SpecGIF == InitGIF /\ [][NextGIF]_vars

(***************************************************************************)
(* The canvas of GIFs whose frames lie anywhere on the logical screen: one *)
(* processing run over every GIF of up to MaxImages frames.                *)
(***************************************************************************)
OffsetRects ==
    {Rect(0, 0, 2, 1), Rect(1, 0, 2, 1), Rect(0, 1, 1, 2), Rect(1, 1, 2, 2), Rect(1, 1, 3, 2)}

\* Frame k on rectangle r, every pixel of colour k.
OffsetFrame(k, r) == [Rect |-> r, Pix |-> [p \in Points(r) |-> k]]

OffsetGIFs ==
    UNION {{[Image |-> [k \in 1..n |-> OffsetFrame(k, rs[k])],
             Delay |-> [k \in 1..n |-> 10],
             Disposal |-> [k \in 1..n |-> DisposalNone]] : rs \in [1..n -> OffsetRects]}
           : n \in 1..MaxImages}

InitDims ==
    /\ GIF \in OffsetGIFs
    /\ Construct
    /\ call = NoCall

SpecDims == InitDims /\ [][NextGIF]_vars

\* Rectangles of frames that start left of or above the origin of the logical screen.
ClipRects == {Rect(0, 0, 2, 1), Rect(-1, 0, 1, 1), Rect(1, -1, 2, 1)}

\* GIFs of 1..MaxImages frames on ClipRects.
ClipGIFs ==
    UNION {{[Image |-> [k \in 1..n |-> OffsetFrame(k, rs[k])],
             Delay |-> [k \in 1..n |-> 10],
             Disposal |-> [k \in 1..n |-> DisposalNone]] : rs \in [1..n -> ClipRects]}
           : n \in 1..MaxImages}

InitClip ==
    /\ GIF \in ClipGIFs
    /\ Construct
    /\ call = NoCall

\* One processing run over every GIF of ClipGIFs.
SpecClip == InitClip /\ [][NextGIF]_vars

(***************************************************************************)
(* The rasterizer's functions applied on their own, to every pair of       *)
(* pixels over a small palette and to every terminal and image size up to  *)
(* the bounds.                                                             *)
(***************************************************************************)
MaxDim == 4

MaxCols == 8

MaxRows == 4

MaxPixW == 2

MaxPixH == 3

MaxCache == 4

\* Values of a colour channel.
Channels == {0, 128, 255}

\* color.RGBA values; color.Transparent is the one with every channel 0.
Colors == [R : Channels, G : {0}, B : Channels, A : Channels]

GlyphCalls ==
    {[fn |-> "renderHalfBlockChar", in |-> <<top, bottom>>, done |-> FALSE, out |-> <<>>] :
        top \in Colors, bottom \in Colors}

SizeCalls ==
    {[fn |-> "calculateImageSize", in |-> <<w, h, dx, dy>>, done |-> FALSE, out |-> <<>>] :
        w \in 0..MaxCols, h \in 0..MaxRows, dx \in 1..MaxDim, dy \in 1..MaxDim}

\* Pixels of the resampled images: transparent or one opaque colour.
PixColors == {ColorTransparent, [R |-> 255, G |-> 0, B |-> 128, A |-> 255]}

\* Resampled images of 1..MaxPixW by 1..MaxPixH pixels.
Resampled ==
    UNION {{[Rect |-> Rect(0, 0, w, h), Pix |-> pix] : pix \in [Points(Rect(0, 0, w, h)) -> PixColors]} :
              w \in 1..MaxPixW, h \in 1..MaxPixH}

TextCalls ==
    {[fn |-> "renderImageHalfBlock", in |-> resized, done |-> FALSE, out |-> <<>>] :
        resized \in Resampled}

\* 16-bit channel values as color.Color.RGBA() returns them.
Chan16 == {0, 255, 256, 257, 32768, 33023, 65280, 65535}

HexCalls ==
    {[fn |-> "Hex", in |-> <<r, g, b>>, done |-> FALSE, out |-> <<>>] :
        r \in Chan16, g \in Chan16, b \in Chan16}

\* The current frame index after the step keys in steps (1 for "n", -1 for "p") are
\* handled one after the other with a cache of n frames.
RECURSIVE KeySteps(_, _, _)
KeySteps(currentFrame, steps, n) ==
    IF steps = <<>> THEN currentFrame
    ELSE KeySteps(StepIndex(currentFrame, Head(steps), n), Tail(steps), n)

\* Next then previous, previous then next, and n times next, from every index of
\* every cache of 1..MaxCache frames.
StepCalls ==
    UNION {{[fn |-> "KeyStep", in |-> <<c, n, steps>>, done |-> FALSE, out |-> <<>>] :
               c \in 0..(n - 1), steps \in {<<1, -1>>, <<-1, 1>>, [k \in 1..n |-> 1]}}
           : n \in 1..MaxCache}

InitRaster ==
    /\ GIF \in ViewerGIFs
    /\ Construct
    /\ call \in GlyphCalls \cup SizeCalls \cup TextCalls \cup HexCalls \cup StepCalls

ApplyGlyph ==
    /\ call.fn = "renderHalfBlockChar"
    /\ ~call.done
    /\ call' = [call EXCEPT !.done = TRUE,
                            !.out = renderHalfBlockChar(call.in[1], call.in[2])]
    /\ UNCHANGED <<GIF, ctrl, workers, progressChan, timers, quit, deferred, last>>

\* m.Width = in[1], m.Height = in[2], and an image of in[3] x in[4] pixels.
ApplySize ==
    /\ call.fn = "calculateImageSize"
    /\ ~call.done
    /\ call' = [call EXCEPT !.done = TRUE,
                            !.out = calculateImageSize(call.in[1], call.in[2],
                                                       Rect(0, 0, call.in[3], call.in[4]))]
    /\ UNCHANGED <<GIF, ctrl, workers, progressChan, timers, quit, deferred, last>>

\* The text renderImageHalfBlock writes for the resampled image in.
ApplyText ==
    /\ call.fn = "renderImageHalfBlock"
    /\ ~call.done
    /\ call' = [call EXCEPT !.done = TRUE, !.out = halfBlockText(call.in)]
    /\ UNCHANGED <<GIF, ctrl, workers, progressChan, timers, quit, deferred, last>>

\* The hex colour renderHalfBlockChar formats from the channels in.
ApplyHex ==
    /\ call.fn = "Hex"
    /\ ~call.done
    /\ call' = [call EXCEPT !.done = TRUE, !.out = Hex(call.in[1], call.in[2], call.in[3])]
    /\ UNCHANGED <<GIF, ctrl, workers, progressChan, timers, quit, deferred, last>>

\* The step keys of in[3] are handled with m.CurrentFrame = in[1] and a cache of
\* in[2] frames.
ApplySteps ==
    /\ call.fn = "KeyStep"
    /\ ~call.done
    /\ call' = [call EXCEPT !.done = TRUE,
                            !.out = KeySteps(call.in[1], call.in[3], call.in[2])]
    /\ UNCHANGED <<GIF, ctrl, workers, progressChan, timers, quit, deferred, last>>

NextRaster ==
    \/ ApplyGlyph
    \/ ApplySize
    \/ ApplyText
    \/ ApplyHex
    \/ ApplySteps

SpecRaster == InitRaster /\ [][NextRaster]_vars

(***************************************************************************)
(* Loading the GIF before the session starts: isURL, the two loaders and   *)
(* Run, applied to a source string in an environment that fixes what       *)
(* http.Get, os.Open and gif.DecodeAll return.                             *)
(***************************************************************************)
\* A nil pointer or a nil error.
Nil == "nil"

\* The *gif.GIF that gif.DecodeAll returns.
Decoded == "*gif.GIF"

StatusOK == 200

\* strings.HasPrefix
HasPrefix(s, prefix) == Len(s) >= Len(prefix) /\ SubSeq(s, 1, Len(prefix)) = prefix

\* A faulty isURL: only the http:// prefix is recognised.
isURL_HttpOnly(s) == HasPrefix(s, "http://")

\* isURL, the same in both packages.
isURL(s) == HasPrefix(s, "http://") \/ HasPrefix(s, "https://")

\* loadGIF under env = [http |-> [err, status], open, decode]; via is the reader
\* the bytes were taken from.
loadGIF(source, env) ==
    IF isURL(source)
    THEN IF env.http.err
         THEN [gif |-> Nil, err |-> "failed to download", via |-> "http"]
         ELSE IF env.http.status # StatusOK
         THEN [gif |-> Nil, err |-> "HTTP error", via |-> "http"]
         ELSE IF ~env.decode
         THEN [gif |-> Nil, err |-> "failed to decode GIF", via |-> "http"]
         ELSE [gif |-> Decoded, err |-> Nil, via |-> "http"]
    ELSE IF ~env.open
         THEN [gif |-> Nil, err |-> "failed to open file", via |-> "file"]
         ELSE IF ~env.decode
         THEN [gif |-> Nil, err |-> "failed to decode GIF", via |-> "file"]
         ELSE [gif |-> Decoded, err |-> Nil, via |-> "file"]

\* LoadFromSource: the errors are returned as they are; on a status other than 200
\* the err returned is the one http.Get returned, which is nil there.
LoadFromSource(source, env) ==
    IF isURL(source)
    THEN IF env.http.err
         THEN [gif |-> Nil, err |-> "http.Get error", via |-> "http"]
         ELSE IF env.http.status # StatusOK
         THEN [gif |-> Nil, err |-> Nil, via |-> "http"]
         ELSE IF ~env.decode
         THEN [gif |-> Nil, err |-> "gif.DecodeAll error", via |-> "http"]
         ELSE [gif |-> Decoded, err |-> Nil, via |-> "http"]
    ELSE IF ~env.open
         THEN [gif |-> Nil, err |-> "os.Open error", via |-> "file"]
         ELSE IF ~env.decode
         THEN [gif |-> Nil, err |-> "gif.DecodeAll error", via |-> "file"]
         ELSE [gif |-> Decoded, err |-> Nil, via |-> "file"]

\* Run: the error it returns before the session, whether the model was constructed
\* and whether tea.NewProgram(&m).Run() was called.
Run(source, env) ==
    LET loaded == loadGIF(source, env)
    IN  IF loaded.err # Nil
        THEN [err |-> "loading GIF: " \o loaded.err, constructed |-> FALSE, started |-> FALSE]
        ELSE [err |-> Nil, constructed |-> TRUE, started |-> TRUE]

Sources ==
    {"http://a.gif", "https://a.gif", "http://", "https://", "ftp://a.gif", "/tmp/a.gif",
     "a.gif", "", "http:/a.gif", "HTTP://a.gif", "xhttp://a.gif", "https"}

Envs ==
    [http : {[err |-> TRUE, status |-> 0]} \cup [err : {FALSE}, status : {200, 404, 500}],
     open : BOOLEAN, decode : BOOLEAN]

LoadCalls ==
    {[fn |-> f, in |-> <<source, env>>, done |-> FALSE, out |-> <<>>] :
        f \in {"isURL", "loadGIF", "LoadFromSource", "Run"}, source \in Sources, env \in Envs}

InitLoad ==
    /\ GIF \in ViewerGIFs
    /\ Construct
    /\ call \in LoadCalls

ApplyIsURL ==
    /\ call.fn = "isURL"
    /\ ~call.done
    /\ call' = [call EXCEPT !.done = TRUE, !.out = isURL(call.in[1])]
    /\ UNCHANGED <<GIF, ctrl, workers, progressChan, timers, quit, deferred, last>>

ApplyLoadGIF ==
    /\ call.fn = "loadGIF"
    /\ ~call.done
    /\ call' = [call EXCEPT !.done = TRUE, !.out = loadGIF(call.in[1], call.in[2])]
    /\ UNCHANGED <<GIF, ctrl, workers, progressChan, timers, quit, deferred, last>>

ApplyLoadFromSource ==
    /\ call.fn = "LoadFromSource"
    /\ ~call.done
    /\ call' = [call EXCEPT !.done = TRUE, !.out = LoadFromSource(call.in[1], call.in[2])]
    /\ UNCHANGED <<GIF, ctrl, workers, progressChan, timers, quit, deferred, last>>

ApplyRun ==
    /\ call.fn = "Run"
    /\ ~call.done
    /\ call' = [call EXCEPT !.done = TRUE, !.out = Run(call.in[1], call.in[2])]
    /\ UNCHANGED <<GIF, ctrl, workers, progressChan, timers, quit, deferred, last>>

NextLoad ==
    \/ ApplyIsURL
    \/ ApplyLoadGIF
    \/ ApplyLoadFromSource
    \/ ApplyRun

SpecLoad == InitLoad /\ [][NextLoad]_vars

(***************************************************************************)
(* Unattended playback: keys and resizes arrive only until processing      *)
(* completes; from then on the event loop receives timer wake-ups (and any *)
(* late progress message) only.  A tea.Tick timer that was started fires   *)
(* and its message is handled: weak fairness of handleFrameAdvance.        *)
(***************************************************************************)
NextPlay ==
    \/ Start
    \/ Worker
    \/ \E r \in 1..MaxRuns : handleProgress(r)
    \/ \E r \in 1..MaxRuns : handleProcessingComplete(r)
    \/ handleFrameAdvance
    \/ ~Ready /\ \E key \in Keys : handleKeyPress(key)
    \/ ~Ready /\ \E size \in Sizes : handleWindowResize(size[1], size[2])

SpecPlay == Init /\ [][NextPlay]_vars /\ WF_vars(handleFrameAdvance)

(***************************************************************************)
(* The second pipeline, package internal/gif: Processor with its own copy  *)
(* of the terminal size, its rasterizer and ProcessAllFrames, and the two  *)
(* pipelines side by side.                                                 *)
(***************************************************************************)
\* GetGIFDimensions: the four accumulators start at zero.
GetGIFDimensions(g) ==
    LET n == Len(g.Image)
        lowestX  == FoldLowest([k \in 1..n |-> g.Image[k].Rect.Min.X], 1, 0)
        lowestY  == FoldLowest([k \in 1..n |-> g.Image[k].Rect.Min.Y], 1, 0)
        highestX == FoldHighest([k \in 1..n |-> g.Image[k].Rect.Max.X], 1, 0)
        highestY == FoldHighest([k \in 1..n |-> g.Image[k].Rect.Max.Y], 1, 0)
    IN  <<highestX - lowestX, highestY - lowestY>>

\* Processor.calculateImageSize for p.width = width, p.height = height and an
\* image of bounds r.
gif_calculateImageSize(width, height, r) ==
    LET maxWidth == width \div 2
        targetHeight == (maxWidth * Dy(r) * 2) \div Dx(r)
    IN  IF targetHeight > height * 2
        THEN <<((height * 2) * Dx(r)) \div (Dy(r) * 2), height * 2>>
        ELSE <<maxWidth, targetHeight>>

\* renderHalfBlockChar of package gif.
gif_renderHalfBlockChar(topPixel, bottomPixel) ==
    LET top == RGBA(topPixel)
        bottom == RGBA(bottomPixel)
    IN  IF top.A = 0 /\ bottom.A = 0
        THEN [text |-> Blank, fg |-> NoColor, bg |-> NoColor]
        ELSE IF top.A = 0
        THEN [text |-> LowerHalfBlocks, fg |-> Hex(bottom.R, bottom.G, bottom.B), bg |-> NoColor]
        ELSE IF bottom.A = 0
        THEN [text |-> UpperHalfBlocks, fg |-> Hex(top.R, top.G, top.B), bg |-> NoColor]
        ELSE [text |-> UpperHalfBlocks, fg |-> Hex(top.R, top.G, top.B),
              bg |-> Hex(bottom.R, bottom.G, bottom.B)]

\* The loop of Processor.renderHalfBlock over the resampled image, from row y on.
RECURSIVE gif_halfBlockRows(_, _, _)
gif_halfBlockRows(resized, y, sb) ==
    IF y >= resized.Rect.Max.Y THEN sb
    ELSE LET bottomAt(x) == IF y + 1 < resized.Rect.Max.Y
                            THEN resized.Pix[<<x, y + 1>>] ELSE ColorTransparent
         IN  gif_halfBlockRows(resized, y + 2,
                sb \o [k \in 1..Dx(resized.Rect) |->
                          gif_renderHalfBlockChar(resized.Pix[<<resized.Rect.Min.X + k - 1, y>>],
                                                  bottomAt(resized.Rect.Min.X + k - 1))]
                   \o <<Newline>>)

\* sb.String() at the end of Processor.renderHalfBlock, for the resampled image.
gif_halfBlockText(resized) == gif_halfBlockRows(resized, resized.Rect.Min.Y, <<>>)

\* Processor.renderHalfBlock's ProgressUpdates for an image of bounds r.
gif_ProgressUpdates(imgCopy, width, height, r) ==
    LET rh == resizedHeight(gif_calculateImageSize(width, height, r), r)
        totalRows == (rh + 1) \div 2
        update(row) == [PartialFrame |-> <<imgCopy, width, height, row>>,
                        RowsComplete |-> row, TotalRows |-> totalRows]
        Sent(u) == u.RowsComplete % 2 = 0 \/ 2 * (u.RowsComplete - 1) + 2 >= rh
    IN  SelectSeq([row \in 1..((rh + 1) \div 2) |-> update(row)], Sent)

\* Processor.renderHalfBlock's result: the text of imgCopy rendered for the
\* processor's width and height.
gif_renderHalfBlock(imgCopy, width, height) == <<imgCopy, width, height>>

\* The loop of ProcessAllFrames from image i (0-based) on; sink tells whether
\* progressChan is not nil.
RECURSIVE ProcessAllFrames_Loop(_, _, _, _, _, _, _, _, _)
ProcessAllFrames_Loop(g, width, height, sink, i, currentImage, previousImage, frames, updates) ==
    IF i >= Len(g.Image) THEN [frames |-> frames, updates |-> updates]
    ELSE LET bounds == Rect(0, 0, GetGIFDimensions(g)[1], GetGIFDimensions(g)[2])
             saved == IF i > 0 /\ g.Disposal[i] = DisposalPrevious
                      THEN DrawCopySrc(previousImage, currentImage)
                      ELSE previousImage
             disposed == IF i > 0
                         THEN CASE g.Disposal[i] = DisposalBackground ->
                                       DrawUniformSrc(currentImage, g.Image[i].Rect)
                                [] g.Disposal[i] = DisposalPrevious ->
                                       DrawCopySrc(currentImage, saved)
                                [] OTHER -> currentImage
                         ELSE currentImage
             drawn == DrawOver(disposed, g.Image[i + 1])
             imgCopy == DrawCopySrc(NewRGBA(bounds), drawn)
         IN  ProcessAllFrames_Loop(g, width, height, sink, i + 1, drawn, saved,
                [frames EXCEPT ![i + 1] = gif_renderHalfBlock(imgCopy, width, height)],
                IF i = 0 /\ sink
                THEN updates \o gif_ProgressUpdates(imgCopy, width, height, bounds)
                ELSE updates)

\* ProcessAllFrames of NewProcessor(g, width, height): the frame strings returned and
\* the ProgressUpdates sent.
ProcessAllFrames(g, width, height, sink) ==
    LET bounds == Rect(0, 0, GetGIFDimensions(g)[1], GetGIFDimensions(g)[2])
    IN  ProcessAllFrames_Loop(g, width, height, sink, 0, NewRGBA(bounds), NewRGBA(bounds),
                              [k \in 1..Len(g.Image) |-> <<>>], <<>>)

\* Rectangles of the frames fed to both pipelines.
PipeRects == {Rect(0, 0, 2, 1), Rect(1, 1, 3, 2)}

\* GIFs of 1..MaxImages frames, each on one of PipeRects, with every disposal of
\* every frame that has a successor.
PipeGIFs ==
    UNION {{[Image |-> [k \in 1..n |-> OffsetFrame(k, rs[k])],
             Delay |-> [k \in 1..n |-> 10],
             Disposal |-> d] :
                rs \in [1..n -> PipeRects],
                d \in {e \in [1..n -> Disposals] : e[n] = DisposalNone}}
           : n \in 1..MaxImages}

\* Either a GIF for whole processing runs, or a rasterizer function on its own.
InitPipes ==
    \/ /\ GIF \in PipeGIFs
       /\ Construct
       /\ call = NoCall
    \/ InitRaster

\* Processing runs at every terminal size a resize reports, progress messages left
\* undelivered; and the rasterizer's functions.
NextPipes ==
    \/ /\ call = NoCall
       /\ \/ Start
          \/ Worker
          \/ \E r \in 1..MaxRuns : handleProcessingComplete(r)
          \/ \E size \in Sizes : handleWindowResize(size[1], size[2])
    \/ NextRaster

SpecPipes == InitPipes /\ [][NextPipes]_vars

(***************************************************************************)
(* The quit command in flight.  case "q" returns the command tea.Quit like  *)
(* any other command: the program runs it and delivers its QuitMsg to the  *)
(* event loop, which ends when it receives that message; until then the    *)
(* loop goes on calling Update with the messages it receives.  call holds  *)
(* the command from its return to the delivery of its message.             *)
(***************************************************************************)
QuitCmd == [fn |-> "tea.Quit", in |-> <<>>, done |-> FALSE, out |-> <<>>]

\* case "q", "ctrl+c": return m, tea.Quit
KeyQuitCmd ==
    /\ Started
    /\ ~quit
    /\ call = NoCall
    /\ call' = QuitCmd
    /\ last' = [ev |-> "q", cmd |-> "quit", delay |-> 0]
    /\ UNCHANGED <<GIF, ctrl, workers, progressChan, timers, quit, deferred>>

\* The QuitMsg of the command is received: p.Run returns.
DeliverQuitMsg ==
    /\ call = QuitCmd
    /\ ~quit
    /\ call' = [call EXCEPT !.done = TRUE]
    /\ quit' = TRUE
    /\ last' = [ev |-> "QuitMsg", cmd |-> "none", delay |-> 0]
    /\ UNCHANGED <<GIF, ctrl, workers, progressChan, timers, deferred>>

NextQuit ==
    \/ Start
    \/ Worker
    \/ \E key \in Keys \ {"q"} : handleKeyPress(key)
    \/ handleFrameAdvance
    \/ \E r \in 1..MaxRuns : handleProgress(r)
    \/ \E r \in 1..MaxRuns : handleProcessingComplete(r)
    \/ \E size \in Sizes : handleWindowResize(size[1], size[2])
    \/ KeyQuitCmd
    \/ DeliverQuitMsg

SpecQuit == Init /\ [][NextQuit]_vars

\* The controller with every event, and every tea.Tick wake-up that was started
\* delivered in the end.
SpecFair == Init /\ [][Next]_vars /\ WF_vars(handleFrameAdvance)

(***************************************************************************)
(* Properties.                                                             *)
(***************************************************************************)
InFlight == {r \in 1..Len(workers) : workers[r].pc \in {"composite", "render", "store"}}

\* C1: when a resize with changed dimensions arrived while Loading, handling the
\* completion of the run in flight starts exactly one further processing run.
C1_ReprocessAfterLoadingResize ==
    [][(last'.ev = "complete" /\ deferred)
          => (last'.cmd = "process" /\ Len(workers') = Len(workers) + 1)]_vars

\* C2: at most one processing worker is in flight; a worker is started only by
\* Init and by a resize handled while not Loading, and a resize handled while
\* Loading returns no command and starts nothing.
C2_SingleWorker ==
    /\ [](Cardinality(InFlight) <= 1)
    /\ [][/\ (Len(workers') # Len(workers) \/ last'.cmd = "process")
               => /\ last'.cmd = "process"
                  /\ Len(workers') = Len(workers) + 1
                  /\ last'.ev = "init" \/ (last'.ev = "resize" /\ ~Loading)
          /\ (last'.ev = "resize" /\ Loading)
               => (last'.cmd = "none" /\ workers' = workers)]_vars

\* C2 witness: a resize with changed dimensions was handled while the one worker
\* was running, and returned no command.
C2_Witness ==
    /\ last.ev = "resize"
    /\ last.cmd = "none"
    /\ deferred
    /\ Loading
    /\ Cardinality(InFlight) = 1

\* C3: whenever the controller is Ready, every cached frame string was rasterized
\* for the terminal width and height the controller stores.
C3_CacheMatchesDimensions ==
    Ready => \A k \in 1..Len(Frames) :
                Frames[k] # <<>> /\ Frames[k][2] = Width /\ Frames[k][3] = Height

\* C4: the controller's fields change only in event-loop handlers, never in a step
\* of the processing worker.
C4_WorkerLeavesController ==
    [][last'.ev = "worker" => UNCHANGED ctrl]_vars

\* The canvas on which frame k (1-based) was composited, for the run in flight.
Base(r, k) == workers[r].bases[k]

\* The snapshot emitted for frame k: the image copy its frame string was rendered from.
Snapshot(r, k) == workers[r].frames[k][1]

\* Frame k and its successor have both been composited and rendered by run r.
Composited(r, k) ==
    /\ k + 1 <= Len(workers[r].bases)
    /\ workers[r].frames[k] # <<>>

\* C5: for every frame whose disposal is RestorePrevious, the canvas on which the
\* next frame is composited equals the canvas as it was before the frame was drawn.
C5_RestorePrevious ==
    \A r \in 1..Len(workers) : \A k \in 1..NumFrames :
        (Composited(r, k) /\ GIF.Disposal[k] = DisposalPrevious)
            => Base(r, k + 1) = Base(r, k)

\* C6: for every frame whose disposal is RestoreBackground, the canvas on which
\* the next frame is composited is transparent exactly inside the frame's bounds
\* and equal to the canvas after the frame everywhere else.
C6_RestoreBackground ==
    \A r \in 1..Len(workers) : \A k \in 1..NumFrames :
        (Composited(r, k) /\ GIF.Disposal[k] = DisposalBackground)
            => \A p \in Points(CanvasRect(GIF)) :
                  Base(r, k + 1)[p] =
                      IF /\ GIF.Image[k].Rect.Min.X <= p[1] /\ p[1] < GIF.Image[k].Rect.Max.X
                         /\ GIF.Image[k].Rect.Min.Y <= p[2] /\ p[2] < GIF.Image[k].Rect.Max.Y
                      THEN Transparent
                      ELSE Snapshot(r, k)[p]

\* C6 witness: frame 2 has disposal RestoreBackground and covers one pixel only;
\* frame 3 was composited on a canvas that kept frame 1's pixel outside frame 2's
\* bounds and lost frame 2's pixel.
C6_Witness ==
    /\ Len(workers) = 1
    /\ Composited(1, 2)
    /\ GIF.Disposal[2] = DisposalBackground
    /\ GIF.Image[2].Rect = Rect(1, 0, 2, 1)
    /\ Snapshot(1, 2)[<<1, 0>>] = 2
    /\ Snapshot(1, 2)[<<0, 0>>] = 1
    /\ Base(1, 3)[<<1, 0>>] = Transparent
    /\ Base(1, 3)[<<0, 0>>] = 1

\* C7: whenever the controller is Ready the frame cache holds one rendered
\* snapshot per SubFrame, in index order (frame k of the GIFs played is of colour k).
C7_OneSnapshotPerSubFrame ==
    Ready => /\ Len(Frames) = Len(GIF.Image)
             /\ \A k \in 1..Len(Frames) :
                    /\ Frames[k] # <<>>
                    /\ \A p \in Points(CanvasRect(GIF)) : Frames[k][1][p] = k

\* C7 witness: Ready after the second run, with a cache of MaxFrames frames.
C7_Witness ==
    /\ Ready
    /\ Len(workers) = 2
    /\ Len(Frames) = Len(GIF.Image)
    /\ Len(GIF.Image) > 1

\* C8: a timed frame-advance moves the frame index to (index + 1) mod frameCount
\* and schedules one next advance when the controller is Ready, not Paused and the
\* cache is non-empty; otherwise it changes no field and schedules nothing.
C8_FrameAdvance ==
    [][last'.ev = "tick" =>
          IF ~Paused /\ Ready /\ Len(Frames) > 0
          THEN /\ CurrentFrame' = (CurrentFrame + 1) % Len(Frames)
               /\ last'.cmd = "tick"
               /\ timers' = timers
               /\ UNCHANGED <<Frames, Width, Height, Paused, ShowHelp, Ready, Loading,
                              LoadingFrame, LoadingRows, TotalRows>>
          ELSE /\ UNCHANGED ctrl
               /\ last'.cmd = "none"
               /\ timers' = timers - 1]_vars

\* C8 witness: an advance has just wrapped from the last frame to frame 0 and
\* scheduled the next one.
C8_Witness ==
    /\ last.ev = "tick"
    /\ last.cmd = "tick"
    /\ Len(Frames) > 1
    /\ CurrentFrame = 0
    /\ Ready
    /\ ~Paused

\* C9: whenever the controller is Ready, and whenever the playback view is
\* rendered, the current frame index is a valid index of the frame cache.
C9_CurrentFrameInRange ==
    (Ready \/ View = "playback") => (0 <= CurrentFrame /\ CurrentFrame < Len(Frames))

\* C9 witness: the previous-frame key has just wrapped from frame 0 to the last frame.
C9_Witness ==
    /\ last.ev = "p"
    /\ Ready
    /\ Len(Frames) > 1
    /\ CurrentFrame = Len(Frames) - 1
    /\ View = "playback"

\* C10: a progress event replaces the loading-display snapshot with the message's
\* when the controller is Loading and not Ready, and changes nothing else; when not,
\* it changes no field at all.
C10_Progress ==
    [][last'.ev = "progress" =>
          \E r \in 1..Len(progressChan) :
              /\ progressChan[r] # <<>>
              /\ progressChan' = [progressChan EXCEPT ![r] = Tail(progressChan[r])]
              /\ IF Loading /\ ~Ready
                 THEN /\ LoadingFrame' = Head(progressChan[r]).partialFrame
                      /\ LoadingRows' = Head(progressChan[r]).rowsComplete
                      /\ TotalRows' = Head(progressChan[r]).totalRows
                      /\ UNCHANGED <<Frames, CurrentFrame, Width, Height, Paused,
                                     ShowHelp, Ready, Loading>>
                 ELSE UNCHANGED ctrl]_vars

\* C10 witness: a progress event was accepted while Loading, and a later one of the
\* same run has just been ignored because the controller is Ready.
C10_Witness ==
    /\ last.ev = "progress"
    /\ Ready
    /\ LoadingFrame # <<>>
    /\ LoadingRows < TotalRows

\* C11: a processing-complete event sets Ready to true, Loading to false and the
\* current frame index to 0, and schedules a timed frame-advance exactly when the
\* controller is not Paused.
C11_ProcessingComplete ==
    [][last'.ev = "complete" =>
          /\ Ready'
          /\ ~Loading'
          /\ CurrentFrame' = 0
          /\ (last'.cmd = "tick") <=> ~Paused
          /\ last'.cmd \in {"tick", "none"}
          /\ timers' = timers + (IF Paused THEN 0 ELSE 1)]_vars

\* C11 witness: a completion was handled while Paused, after the next-frame key had
\* moved the index off 0 during loading: the index is back at 0 and nothing was
\* scheduled.
C11_Witness ==
    /\ last.ev = "complete"
    /\ last.cmd = "none"
    /\ Paused
    /\ Ready
    /\ ~Loading
    /\ CurrentFrame = 0
    /\ Len(Frames) > 1
    /\ timers = 0

\* C12: the pause-toggle key flips Paused; it schedules a timed frame-advance exactly
\* when the new value is not-paused and the controller is Ready; it never changes the
\* current frame index, the cache or the Loading and Ready flags.
C12_PauseToggle ==
    [][last'.ev = "space" =>
          /\ Paused' = ~Paused
          /\ (last'.cmd = "tick") <=> (Paused /\ Ready)
          /\ last'.cmd \in {"tick", "none"}
          /\ timers' = timers + (IF Paused /\ Ready THEN 1 ELSE 0)
          /\ UNCHANGED <<CurrentFrame, Frames, Loading, Ready>>]_vars

\* C12 witness: the key has just unpaused a controller that is still Loading, and
\* no advance was scheduled.
C12_Witness ==
    /\ last.ev = "space"
    /\ last.cmd = "none"
    /\ ~Paused
    /\ Loading
    /\ ~Ready
    /\ Len(Frames) > 0

\* C13: with a non-empty frame cache the next-frame and previous-frame keys set
\* Paused and move the current frame index by +1 and -1 modulo the frame count,
\* scheduling no timer; with an empty cache they change nothing.
C13_StepKeys ==
    [][last'.ev \in {"n", "p"} =>
          /\ last'.cmd = "none"
          /\ timers' = timers
          /\ UNCHANGED <<Frames, Width, Height, ShowHelp, Ready, Loading, LoadingFrame,
                         LoadingRows, TotalRows>>
          /\ IF Len(Frames) > 0
             THEN /\ Paused'
                  /\ last'.ev = "n" => CurrentFrame' = (CurrentFrame + 1) % Len(Frames)
                  /\ last'.ev = "p" =>
                        CurrentFrame' = IF CurrentFrame = 0 THEN Len(Frames) - 1
                                        ELSE CurrentFrame - 1
             ELSE UNCHANGED <<Paused, CurrentFrame>>]_vars

\* C13 witness: the next-frame key was handled while the worker had stored the cache
\* and the controller was not yet Ready: the controller is paused and on frame 1.
C13_Witness ==
    /\ last.ev = "n"
    /\ ~Ready
    /\ Len(Frames) > 1
    /\ Paused
    /\ CurrentFrame = 1

\* C14: every resize event stores the new width and height; when the stored width
\* or height was 0, or the new dimensions equal the stored ones, it starts no
\* processing and leaves Ready, Loading, the frame cache, the loading-display
\* snapshot and the current frame unchanged.
C14_ResizeStores ==
    [][\A size \in Sizes :
          handleWindowResize(size[1], size[2]) =>
              /\ Width' = size[1]
              /\ Height' = size[2]
              /\ (Width = 0 \/ Height = 0 \/ (size[1] = Width /\ size[2] = Height))
                    => /\ last'.cmd = "none"
                       /\ workers' = workers
                       /\ UNCHANGED <<Ready, Loading, Frames, LoadingFrame, LoadingRows,
                                      TotalRows, CurrentFrame>>]_vars

\* C14 witness: a Ready controller whose cache was rendered for the stored
\* dimensions has just handled a resize to those same dimensions.
C14_Witness ==
    /\ last.ev = "resize"
    /\ last.cmd = "none"
    /\ Ready
    /\ Width # 0
    /\ Len(Frames) > 0
    /\ Frames[1][2] = Width
    /\ Frames[1][3] = Height

C16_TickDelay ==
    [][last'.cmd = "tick" =>
          /\ last'.ev \in {"complete", "space", "tick"}
          /\ CurrentFrame' + 1 \in DOMAIN GIF.Delay
          /\ last'.delay = 10 * (IF GIF.Delay[CurrentFrame' + 1] = 0 THEN 10
                                 ELSE GIF.Delay[CurrentFrame' + 1])
          /\ last'.delay > 0]_vars

\* C16 witness: an advance was scheduled for a frame whose GIF delay is 0, with a
\* delay of 100 ms.
C16_Witness ==
    /\ last.cmd = "tick"
    /\ GIF.Delay[CurrentFrame + 1] = 0
    /\ last.delay = 100

\* The delay in ms after which frame k (0-based) is left.
C17_DelayMs(k) == 10 * (IF GIF.Delay[k + 1] = 0 THEN 10 ELSE GIF.Delay[k + 1])

\* C17: after processing completes with the controller unpaused, and with no
\* further key or resize, playback starts at frame 0 with one timer of frame 0's
\* delay; there is always exactly one timer pending; every wake-up moves the index
\* from k to (k + 1) mod n and starts the timer of the new frame with that frame's
\* delay; and every frame is displayed again and again.
C17_CyclicPlayback ==
    /\ [][(last'.ev = "complete" /\ ~Paused) =>
              /\ CurrentFrame' = 0
              /\ last'.cmd = "tick"
              /\ last'.delay = C17_DelayMs(0)]_vars
    /\ []((Ready /\ ~Paused) => timers = 1)
    /\ [][(last'.ev = "tick" /\ Ready /\ ~Paused) =>
              /\ CurrentFrame' = (CurrentFrame + 1) % Len(GIF.Image)
              /\ last'.cmd = "tick"
              /\ last'.delay = C17_DelayMs(CurrentFrame')]_vars
    /\ \A k \in 0..(MaxFrames - 1) :
          (Ready /\ ~Paused /\ k < Len(GIF.Image))
              ~> (CurrentFrame = k /\ last.ev = "tick" /\ View = "playback")

\* C17 witness: playback of a GIF of more than one frame has just wrapped from the
\* last frame to frame 0 and started frame 0's timer of 100 ms.
C17_Witness ==
    /\ last.ev = "tick"
    /\ last.cmd = "tick"
    /\ last.delay = 100
    /\ CurrentFrame = 0
    /\ Len(GIF.Image) > 1
    /\ Ready
    /\ ~Paused
    /\ timers = 1

C18_Highest(S) == CHOOSE x \in S : \A y \in S : y <= x

C18_Lowest(S) == CHOOSE x \in S : \A y \in S : x <= y

C18_MinX == {GIF.Image[k].Rect.Min.X : k \in 1..Len(GIF.Image)}

C18_MinY == {GIF.Image[k].Rect.Min.Y : k \in 1..Len(GIF.Image)}

C18_MaxX == {GIF.Image[k].Rect.Max.X : k \in 1..Len(GIF.Image)}

C18_MaxY == {GIF.Image[k].Rect.Max.Y : k \in 1..Len(GIF.Image)}

\* The canvas a processing run has allocated is w pixels wide and h pixels high.
C18_CanvasIs(r, w, h) == DOMAIN workers[r].currentImage = Points(Rect(0, 0, w, h))

\* C18: the canvas size is the size of the bounding box of all SubFrame
\* rectangles: width = (max of Max.X) - (min of Min.X), height likewise on Y, also
\* when every frame has a strictly positive offset.
C18_BoundingBox ==
    \A r \in 1..Len(workers) :
        C18_CanvasIs(r, C18_Highest(C18_MaxX) - C18_Lowest(C18_MinX),
                        C18_Highest(C18_MaxY) - C18_Lowest(C18_MinY))

\* C18 as amended: the canvas size is the size of the bounding box of all SubFrame
\* rectangles together with the origin: width = (max of Max.X and 0) - (min of
\* Min.X and 0), height likewise on Y.
C18_BoundingBoxWithOrigin ==
    \A r \in 1..Len(workers) :
        C18_CanvasIs(r, C18_Highest(C18_MaxX \cup {0}) - C18_Lowest(C18_MinX \cup {0}),
                        C18_Highest(C18_MaxY \cup {0}) - C18_Lowest(C18_MinY \cup {0}))

\* C18 witness: a run has composited the last of several frames that all have a
\* strictly positive offset on both axes, on a canvas larger than their bounding box.
C18_Witness ==
    /\ Len(workers) = 1
    /\ Len(GIF.Image) > 1
    /\ workers[1].i = Len(GIF.Image)
    /\ \A k \in 1..Len(GIF.Image) :
          GIF.Image[k].Rect.Min.X > 0 /\ GIF.Image[k].Rect.Min.Y > 0
    /\ C18_CanvasIs(1, 3, 2)
    /\ C18_Highest(C18_MaxX) - C18_Lowest(C18_MinX) = 2

\* C19: glyph selection for a (top, bottom) pixel pair.  Both alpha 0: two blanks,
\* no style.  Top alpha 0, bottom visible: lower half block, bottom colour as
\* foreground, no background.  Bottom alpha 0, top visible: upper half block, top
\* colour as foreground, no background.  Both visible: upper half block, top colour
\* as foreground, bottom colour as background.
C19_Glyph ==
    (call.fn = "renderHalfBlockChar" /\ call.done) =>
        LET top == call.in[1]
            bottom == call.in[2]
            rgb(c) == <<c.R, c.G, c.B>>
        IN  /\ (top.A = 0 /\ bottom.A = 0) =>
                   call.out = [text |-> Blank, fg |-> NoColor, bg |-> NoColor]
            /\ (top.A = 0 /\ bottom.A # 0) =>
                   call.out = [text |-> LowerHalfBlocks, fg |-> rgb(bottom), bg |-> NoColor]
            /\ (top.A # 0 /\ bottom.A = 0) =>
                   call.out = [text |-> UpperHalfBlocks, fg |-> rgb(top), bg |-> NoColor]
            /\ (top.A # 0 /\ bottom.A # 0) =>
                   call.out = [text |-> UpperHalfBlocks, fg |-> rgb(top), bg |-> rgb(bottom)]

\* C19 witness: a half-transparent top pixel over a fully transparent bottom pixel
\* was rendered as the upper half block in the top pixel's colour.
C19_Witness ==
    /\ call.fn = "renderHalfBlockChar"
    /\ call.done
    /\ call.in[1] = [R |-> 128, G |-> 0, B |-> 255, A |-> 128]
    /\ call.in[2].A = 0
    /\ call.in[2].R = 255
    /\ call.out = [text |-> UpperHalfBlocks, fg |-> <<128, 0, 255>>, bg |-> NoColor]

\* C20: for every source size of at least 1x1 and every terminal size,
\* calculateImageSize returns a pixel width of at most floor(columns / 2) and a
\* pixel height of at most rows * 2.
C20_SizeFits ==
    (call.fn = "calculateImageSize" /\ call.done) =>
        /\ call.out[1] <= call.in[1] \div 2
        /\ call.out[1] <= call.in[1]
        /\ call.out[2] <= call.in[2] * 2
        /\ call.out[1] >= 0
        /\ call.out[2] >= 0

\* C20 witness: a 2x2 image in a terminal of 8 columns and 2 rows was fitted by
\* height: 2 pixels wide and 4 pixels high.
C20_Witness ==
    /\ call.fn = "calculateImageSize"
    /\ call.done
    /\ call.in = <<8, 2, 2, 2>>
    /\ call.out = <<2, 4>>

\* n is the quotient num / den truncated to an integer (num >= 0, den > 0).
C21_Truncated(n, num, den) == n * den <= num /\ num < (n + 1) * den

\* The result of a calculateImageSize call is the one computed from an available
\* pixel width of avail: the target height is avail x (sourceHeight / sourceWidth)
\* x 2 truncated; only if that exceeds terminalRows x 2 is the height set to
\* terminalRows x 2 and the width recomputed as height / aspectRatio / 2 truncated.
C21_ComputedFrom(avail) ==
    LET rows == call.in[2]
        dx == call.in[3]
        dy == call.in[4]
    IN  \E target \in 0..(2 * avail * dy) :
            /\ C21_Truncated(target, avail * dy * 2, dx)
            /\ IF target > rows * 2
               THEN /\ call.out[2] = rows * 2
                    /\ C21_Truncated(call.out[1], rows * 2 * dx, dy * 2)
               ELSE call.out = <<avail, target>>

\* C21: calculateImageSize takes the available pixel width to be terminalColumns
\* and computes the sizes from it as described.
C21_FromColumns ==
    (call.fn = "calculateImageSize" /\ call.done) => C21_ComputedFrom(call.in[1])

\* C21 as amended: calculateImageSize takes the available pixel width to be
\* floor(terminalColumns / 2), each glyph pair being two cells wide, and computes
\* the sizes from it as described.
C21_FromHalfColumns ==
    (call.fn = "calculateImageSize" /\ call.done) => C21_ComputedFrom(call.in[1] \div 2)

\* C21 witness: a 4x1 image in a terminal of 8 columns and 4 rows is 4 pixels wide
\* and 2 high, not 8 wide and 4 high.
C21_Witness ==
    /\ call.fn = "calculateImageSize"
    /\ call.done
    /\ call.in = <<8, 4, 4, 1>>
    /\ call.out = <<4, 2>>

\* The number of text rows of the image a progress message was produced for: the
\* resampled image's height, halved and rounded up.
C22_TextRows(m, R) ==
    LET pf == m.partialFrame
        rh == resizedHeight(calculateImageSize(pf[2], pf[3], CanvasRect(GIF)), CanvasRect(GIF))
    IN  2 * R >= rh /\ 2 * R < rh + 2

\* C22: the progress events of a rasterization of R text rows, in the order sent,
\* are one per even-numbered row and one for the final row, exactly once each; every
\* event carries the text of the rows completed so far, rowsComplete and totalRows
\* with 0 < rowsComplete <= totalRows = R; rowsComplete strictly increases and ends
\* at R; and loadingRows <= totalRows in every Loading state.  (The events not yet
\* delivered form the tail of that sequence; before any delivery it is all of it.)
C22_ProgressEvents ==
    /\ \A r \in 1..Len(progressChan) :
          LET q == progressChan[r]
          IN  q # <<>> =>
                \E R \in 1..q[Len(q)].totalRows :
                    /\ \A i \in 1..Len(q) :
                          /\ C22_TextRows(q[i], R)
                          /\ q[i].totalRows = R
                          /\ 0 < q[i].rowsComplete
                          /\ q[i].rowsComplete <= q[i].totalRows
                          /\ q[i].partialFrame[4] = q[i].rowsComplete
                          /\ q[i].partialFrame[1] = q[1].partialFrame[1]
                    /\ \A i \in 1..(Len(q) - 1) : q[i].rowsComplete < q[i + 1].rowsComplete
                    /\ q[Len(q)].rowsComplete = R
                    /\ {q[i].rowsComplete : i \in 1..Len(q)} =
                          {row \in q[1].rowsComplete..R : row % 2 = 0 \/ row = R}
                    /\ (workers[r].pc = "composite" /\ workers[r].i = 1 /\ LoadingFrame = <<>>
                        /\ Len(workers) = 1)
                          => q[1].rowsComplete = (IF R = 1 THEN 1 ELSE 2)
    /\ Loading => LoadingRows <= TotalRows

\* C22 witness: a rasterization of 3 text rows has sent its events for rows 2 and 3,
\* the first has been delivered to the Loading controller and the last is pending.
C22_Witness ==
    /\ Loading
    /\ LoadingRows = 2
    /\ TotalRows = 3
    /\ Len(workers) = 1
    /\ Len(progressChan[1]) = 1
    /\ progressChan[1][1].rowsComplete = 3
    /\ progressChan[1][1].totalRows = 3

\* The call under evaluation is a finished call of one of the two loaders.
C23_Loaded == call.fn \in {"loadGIF", "LoadFromSource"} /\ call.done

\* The source of the call is read over HTTP: it begins with http:// or https://.
C23_Remote ==
    \E rest \in {SubSeq(call.in[1], k, Len(call.in[1])) : k \in 1..(Len(call.in[1]) + 1)} :
        call.in[1] = "http://" \o rest \/ call.in[1] = "https://" \o rest

\* The environment of the call makes the load fail.
C23_Fails ==
    LET env == call.in[2]
    IN  \/ C23_Remote /\ (env.http.err \/ env.http.status # 200)
        \/ ~C23_Remote /\ ~env.open
        \/ ~env.decode

\* C23: each loader yields either a GIF and no error or an error and no GIF, an
\* error whenever the file cannot be opened, the HTTP status is not 200 or the bytes
\* do not decode; Run returns the error without constructing the controller or
\* starting the session.
C23_GifOrError ==
    /\ C23_Loaded =>
          /\ (call.out.gif # Nil /\ call.out.err = Nil) \/ (call.out.gif = Nil /\ call.out.err # Nil)
          /\ C23_Fails <=> call.out.err # Nil
    /\ (call.fn = "Run" /\ call.done) =>
          /\ C23_Fails <=> call.out.err # Nil
          /\ call.out.err # Nil => (~call.out.constructed /\ ~call.out.started)

\* C24: a source is treated as a URL exactly when it begins with http:// or
\* https://; every other string, the empty one included, is opened as a local file.
C24_UrlByPrefix ==
    /\ (call.fn = "isURL" /\ call.done) => (call.out <=> C23_Remote)
    /\ C23_Loaded => call.out.via = (IF C23_Remote THEN "http" ELSE "file")

\* C24 witness: loadGIF has opened a source of another scheme as a local file.
C24_Witness ==
    /\ call.fn = "loadGIF"
    /\ call.done
    /\ call.in[1] = "ftp://a.gif"
    /\ call.out.via = "file"
    /\ call.out.gif = Decoded

\* Pixel p lies inside the bounds of SubFrame k and is opaque there.
C25_Opaque(k, p) ==
    /\ GIF.Image[k].Rect.Min.X <= p[1] /\ p[1] < GIF.Image[k].Rect.Max.X
    /\ GIF.Image[k].Rect.Min.Y <= p[2] /\ p[2] < GIF.Image[k].Rect.Max.Y
    /\ GIF.Image[k].Pix[p] # Transparent

\* C25: snapshot i is one over-composite of SubFrame i onto the canvas left by
\* frame i-1 after its disposal: an opaque source pixel replaces the destination
\* pixel, a transparent one and every pixel outside the SubFrame's bounds leave it
\* unchanged; for disposal None that canvas is snapshot i-1; the first canvas is
\* fully transparent and frames are processed in ascending index order.
C25_OverComposite ==
    \A r \in 1..Len(workers) :
        /\ Len(workers[r].bases) \in {workers[r].i, workers[r].i + 1}
        /\ \A k \in 1..NumFrames :
              workers[r].frames[k] # <<>> <=> (workers[r].pc # "sent" /\ k <= workers[r].i)
        /\ \A k \in 1..NumFrames :
              workers[r].frames[k] # <<>> =>
                  /\ \A p \in Points(CanvasRect(GIF)) :
                        Snapshot(r, k)[p] = IF C25_Opaque(k, p) THEN GIF.Image[k].Pix[p]
                                            ELSE Base(r, k)[p]
                  /\ k = 1 => \A p \in Points(CanvasRect(GIF)) : Base(r, k)[p] = Transparent
                  /\ (k > 1 /\ GIF.Disposal[k - 1] = DisposalNone)
                        => Base(r, k) = Snapshot(r, k - 1)

\* C25 witness: frame 2, transparent at (0,0) and opaque at (1,0), was composited
\* on the snapshot of frame 1 (disposal None): the snapshot shows frame 1 at (0,0)
\* and frame 2 at (1,0).
C25_Witness ==
    /\ Len(workers) = 1
    /\ workers[1].frames[2] # <<>>
    /\ GIF.Disposal[1] = DisposalNone
    /\ GIF.Image[2].Rect = Rect(0, 0, 2, 1)
    /\ GIF.Image[2].Pix[<<0, 0>>] = Transparent
    /\ GIF.Image[2].Pix[<<1, 0>>] = 2
    /\ Snapshot(1, 1)[<<0, 0>>] = 1
    /\ Snapshot(1, 1)[<<1, 0>>] = 1
    /\ Snapshot(1, 2)[<<0, 0>>] = 1
    /\ Snapshot(1, 2)[<<1, 0>>] = 2

\* A message was sent on the progress channel of run r in this step.
C26_Sends(r) ==
    /\ progressChan'[r] # progressChan[r]
    /\ progressChan[r] = <<>> \/ progressChan'[r] # Tail(progressChan[r])

\* C26: within a run progress events are sent only while frame 0 is rasterized; the
\* progress channel is closed exactly once, by the step that rasterizes frame 0, and
\* nothing is sent on it once it is closed.
C26_ProgressOnlyForFrame0 ==
    /\ [](\A r \in 1..Len(workers) :
            /\ workers[r].closes <= 1
            /\ workers[r].closes = 1
                  <=> (workers[r].i >= 1 \/ workers[r].pc \in {"store", "sent", "done"}))
    /\ [][\A r \in 1..Len(workers) :
            /\ (C26_Sends(r) \/ workers'[r].closes # workers[r].closes)
                  => /\ workers[r].pc = "render"
                     /\ workers[r].i = 0
                     /\ workers[r].closes = 0
                     /\ workers'[r].closes = 1
            /\ workers[r].closes > 0 => ~C26_Sends(r)]_vars

\* C26 witness: the second frame of a run has been rasterized after the channel was
\* closed, and the events of frame 0 are still undelivered.
C26_Witness ==
    /\ Len(workers) = 1
    /\ workers[1].i = 2
    /\ workers[1].closes = 1
    /\ Len(progressChan[1]) = 2
    /\ progressChan[1][1].partialFrame[1] = Solid(1).Pix

\* A renderImageHalfBlock call has written its text.
C27_Done == call.fn = "renderImageHalfBlock" /\ call.done

\* C27: a resampled image of w x h pixels is written as ceil(h/2) rows, each of w
\* glyph pairs followed by a newline; when h is odd the glyphs of the last row are
\* blank or upper half blocks without a background.
C27_RowsOfGlyphPairs ==
    C27_Done =>
        LET w == Dx(call.in.Rect)
            h == Dy(call.in.Rect)
            rows == (h + 1) \div 2
        IN  /\ Len(call.out) = rows * (w + 1)
            /\ \A k \in 1..Len(call.out) :
                  IF k % (w + 1) = 0
                  THEN call.out[k] = Newline
                  ELSE call.out[k].text \in {Blank, LowerHalfBlocks, UpperHalfBlocks}
            /\ h % 2 = 1 =>
                  \A k \in ((rows - 1) * (w + 1) + 1)..(rows * (w + 1) - 1) :
                     \/ call.out[k].text = Blank
                     \/ call.out[k].text = UpperHalfBlocks /\ call.out[k].bg = NoColor

\* C27 witness: a 2 x 3 image whose last row of pixels is half transparent, under a
\* first text row with a two-coloured glyph.
C27_Witness ==
    /\ C27_Done
    /\ Dx(call.in.Rect) = 2 /\ Dy(call.in.Rect) = 3
    /\ Len(call.out) = 6
    /\ call.out[1].bg # NoColor
    /\ call.out[4].text = UpperHalfBlocks
    /\ call.out[5].text = Blank

\* A hex colour has been formatted.
C28_Done == call.fn = "Hex" /\ call.done

\* C28: every channel of the hex colour is floor(c / 256) of the 16-bit channel c, a
\* value in 0..255, and channels with the same high bytes give the same hex colour.
C28_HighByte ==
    C28_Done =>
        /\ \A i \in 1..3 :
              /\ call.out[i] \in 0..255
              /\ call.out[i] * 256 <= call.in[i]
              /\ call.in[i] < (call.out[i] + 1) * 256
        /\ \A r \in Chan16, g \in Chan16, b \in Chan16 :
              (r \div 256 = call.in[1] \div 256 /\ g \div 256 = call.in[2] \div 256
                  /\ b \div 256 = call.in[3] \div 256)
                => Hex(r, g, b) = call.out

\* C28 witness: channels just below a multiple of 256 are truncated, not rounded up.
C28_Witness ==
    /\ C28_Done
    /\ call.in = <<255, 33023, 65535>>
    /\ call.out = <<0, 128, 255>>

\* C29: whenever the controller is Ready and not Paused, at most one frame-advance
\* wake-up is outstanding.
C29_AtMostOneWakeup == (Ready /\ ~Paused) => timers <= 1

\* C30: whenever the controller is Ready and not Paused and the GIF has a frame with
\* its delay, a frame-advance wake-up is outstanding.
\* Playback is on: Ready, not Paused, not quit, a GIF of at least one frame with one
\* delay per frame.
C30_Playing ==
    /\ Ready /\ ~Paused /\ ~quit
    /\ Len(GIF.Image) >= 1 /\ Len(GIF.Delay) = Len(GIF.Image)

\* C30: while playback is on a frame-advance wake-up is outstanding; with every
\* wake-up delivered, a wake-up then advances the frame and starts the next one, and
\* the index of a GIF of several frames changes, unless playback is paused, restarted
\* by a resize or quit first.
C30_NeverStalls ==
    /\ [](C30_Playing => timers >= 1)
    /\ C30_Playing ~> (\/ last.ev = "tick" /\ last.cmd = "tick"
                       \/ ~C30_Playing)
    /\ \A k \in 0..(MaxFrames - 1) :
          (C30_Playing /\ Len(GIF.Image) > 1 /\ CurrentFrame = k)
              ~> (CurrentFrame # k \/ ~C30_Playing)

\* C30 witness: during playback a wake-up has advanced a GIF of two frames to its
\* second frame and started the next wake-up, the only one outstanding.
C30_Witness ==
    /\ C30_Playing
    /\ last.ev = "tick" /\ last.cmd = "tick"
    /\ CurrentFrame = 1
    /\ timers = 1
    /\ Len(workers) = 1

\* The runs whose processingCompleteMsg was returned and is not yet handled.
C31_Undelivered == {r \in 1..Len(workers) : workers[r].pc = "sent"}

\* C31: once Init has run exactly one of Loading and Ready holds; Loading is raised
\* only by Init and by a processed resize and lowered only by a completion, Ready is
\* raised only by a completion and lowered only by a processed resize; and the
\* controller is Loading exactly when a run has not had its completion handled.
C31_LoadingXorReady ==
    /\ [](Started => (Loading # Ready))
    /\ [](Started => (Loading <=> (InFlight # {} \/ C31_Undelivered # {})))
    /\ [][/\ (~Loading /\ Loading')
               => (last'.ev \in {"init", "resize"} /\ last'.cmd = "process")
          /\ (Loading /\ ~Loading') => last'.ev = "complete"
          /\ (~Ready /\ Ready') => last'.ev = "complete"
          /\ (Ready /\ ~Ready') => (last'.ev = "resize" /\ last'.cmd = "process")
          /\ last'.ev = "complete" => (Ready' /\ ~Loading')
          /\ last'.cmd = "process" => (Loading' /\ ~Ready')]_vars

\* C31 witness: a resize of the Ready controller has started the second run, whose
\* worker is rendering while the controller is Loading again.
C31_Witness ==
    /\ Len(workers) = 2
    /\ workers[1].pc = "done"
    /\ workers[2].pc = "render"
    /\ Loading
    /\ ~Ready

\* The terminal width and height a frame string was rasterized for.
C32_SizeOf(frame) == <<frame[2], frame[3]>>

\* C32: the frame strings of one processing run, rendered so far or stored in the
\* cache, are all rasterized for one terminal width and height.
C32_OneSizePerRun ==
    /\ \A j, k \in 1..Len(Frames) :
          (Frames[j] # <<>> /\ Frames[k] # <<>>) => C32_SizeOf(Frames[j]) = C32_SizeOf(Frames[k])
    /\ \A r \in 1..Len(workers) :
          \A j, k \in 1..Len(workers[r].frames) :
             (workers[r].frames[j] # <<>> /\ workers[r].frames[k] # <<>>)
                => C32_SizeOf(workers[r].frames[j]) = C32_SizeOf(workers[r].frames[k])

\* C33: a progress message of a run that is no longer the latest one leaves the
\* loading display (LoadingFrame, LoadingRows, TotalRows) as it is.
C33_StaleProgressIgnored ==
    [][\A r \in 1..Len(workers) :
          (handleProgress(r) /\ r < Len(workers))
             => UNCHANGED <<LoadingFrame, LoadingRows, TotalRows>>]_vars

\* A progressMsg as the ProgressUpdate with the same three values.
C34_Update(msg) ==
    [PartialFrame |-> msg.partialFrame, RowsComplete |-> msg.rowsComplete,
     TotalRows |-> msg.totalRows]

\* A frame string of model.ProcessGIF is the string ProcessAllFrames returns at the
\* same index for the terminal size the frame was rendered for.
C34_SameFrame(frames, k) ==
    frames[k] # <<>> =>
        frames[k] = ProcessAllFrames(GIF, frames[k][2], frames[k][3], TRUE).frames[k]

\* C34: the two pipelines agree: every frame string and the sequence of progress
\* events of model.ProcessGIF are those of Processor.ProcessAllFrames for the same
\* GIF and terminal size, GetGIFDimensions equals getGifDimensions, and the two
\* rasterizers compute the same size, glyph and text.
C34_PipelinesAgree ==
    /\ GetGIFDimensions(GIF) = getGifDimensions(GIF)
    /\ \A k \in 1..Len(Frames) : C34_SameFrame(Frames, k)
    /\ \A r \in 1..Len(workers) :
          /\ \A k \in 1..Len(workers[r].frames) : C34_SameFrame(workers[r].frames, k)
          /\ workers[r].closes = 0 => progressChan[r] = <<>>
          /\ workers[r].closes > 0 =>
                /\ progressChan[r] # <<>>
                /\ LET first == progressChan[r][1].partialFrame
                   IN  [j \in 1..Len(progressChan[r]) |-> C34_Update(progressChan[r][j])]
                          = ProcessAllFrames(GIF, first[2], first[3], TRUE).updates
    /\ (call.fn = "calculateImageSize" /\ call.done) =>
          call.out = gif_calculateImageSize(call.in[1], call.in[2],
                                            Rect(0, 0, call.in[3], call.in[4]))
    /\ (call.fn = "renderHalfBlockChar" /\ call.done) =>
          call.out = gif_renderHalfBlockChar(call.in[1], call.in[2])
    /\ (call.fn = "renderImageHalfBlock" /\ call.done) =>
          call.out = gif_halfBlockText(call.in)

\* C34 witness: a second run, at a terminal of 6x3, has stored its three frames of a
\* GIF with a RestorePrevious and a RestoreBackground disposal and an offset frame,
\* and its progress events are undelivered.
C34_Witness ==
    /\ Len(workers) = 2
    /\ workers[2].pc = "sent"
    /\ Len(Frames) = 3
    /\ Frames[3][2] = 6 /\ Frames[3][3] = 3
    /\ GIF.Disposal[1] = DisposalPrevious
    /\ GIF.Disposal[2] = DisposalBackground
    /\ GIF.Image[2].Rect = Rect(1, 1, 3, 2)
    /\ Len(progressChan[2]) >= 1

\* C35: with a cache of n frames, next then previous, previous then next, and n
\* times next each bring the current frame index back to where it started, from
\* every index 0..n-1.
C35_StepsReturn ==
    (call.fn = "KeyStep" /\ call.done) =>
        /\ call.in[1] \in 0..(call.in[2] - 1)
        /\ call.out = call.in[1]

\* C35 witness: previous then next from index 0 of a cache of three frames, through
\* the last index.
C35_Witness ==
    /\ call.fn = "KeyStep"
    /\ call.done
    /\ call.in = <<0, 3, <<-1, 1>>>>
    /\ KeySteps(0, <<-1>>, 3) = 2
    /\ call.out = 0

\* C36: progress, completion, resize and wake-up events (and the worker's steps)
\* leave Paused as it is; a completion handled while Paused makes the controller
\* Ready, still Paused, and schedules no advance; the help key toggles ShowHelp and
\* changes no other field of the controller.
C36_PausedOrthogonal ==
    [][/\ last'.ev \in {"progress", "complete", "resize", "tick", "worker", "init"}
            => Paused' = Paused
       /\ (last'.ev = "complete" /\ Paused)
            => (Ready' /\ Paused' /\ last'.cmd = "none" /\ timers' = timers)
       /\ last'.ev = "?"
            => /\ ShowHelp' = ~ShowHelp
               /\ last'.cmd = "none"
               /\ UNCHANGED <<Frames, CurrentFrame, Width, Height, Paused, Ready, Loading,
                              LoadingFrame, LoadingRows, TotalRows, workers, progressChan,
                              timers, quit>>]_vars

\* C36 witness: the controller was paused before a resize restarted processing, and
\* the completion of the second run has left it Ready, Paused and on frame 0 with no
\* wake-up outstanding.
C36_Witness ==
    /\ last.ev = "complete"
    /\ last.cmd = "none"
    /\ Len(workers) = 2
    /\ Ready
    /\ Paused
    /\ timers = 0

\* C37: the rectangle of every SubFrame lies inside the allocated canvas, and every
\* opaque pixel of SubFrame k is in the snapshot rendered for it.
C37_NoPixelClipped ==
    /\ \A k \in 1..Len(GIF.Image) : Points(GIF.Image[k].Rect) \subseteq Points(CanvasRect(GIF))
    /\ \A r \in 1..Len(workers) :
          \A k \in 1..Len(workers[r].frames) :
             workers[r].frames[k] # <<>> =>
                \A p \in Points(GIF.Image[k].Rect) :
                   GIF.Image[k].Pix[p] # Transparent =>
                      /\ p \in DOMAIN Snapshot(r, k)
                      /\ Snapshot(r, k)[p] = GIF.Image[k].Pix[p]

\* C38: the quit key returns the terminate command and changes no field of the
\* controller, whatever the state; and once it was handled no step changes a field
\* of the controller any more.
C38_QuitIsFinal ==
    [][/\ last'.ev = "q" => (last'.cmd = "quit" /\ UNCHANGED ctrl)
       /\ (call = QuitCmd \/ quit) => UNCHANGED ctrl]_vars

====
